---- MODULE Spec2Model ----
(***************************************************************************)
(* A model of the terminal text viewer of src/src/main.rs: the start-up    *)
(* sequence (open_editor, enable_raw_mode, set_window_size), the main loop *)
(* (scroll, refresh_screen, read_key, handle_key), the key decoder and the *)
(* exit path.  Text is modelled as sequences of one-character strings, a   *)
(* terminal control sequence as one token of the output buffer.            *)
(***************************************************************************)
EXTENDS Integers, Sequences, FiniteSets, TLC

VARIABLES
    pc,            \* the statement of main() that runs next, or "terminated"
    editor,        \* the Editor struct
    term_attrs,    \* the termios the terminal device currently has
    screen,        \* the last buffer refresh_screen wrote, <<>> before the first
    rk,            \* read_key's frame: pending read() call site and its locals
    key,           \* last_char: the key read_key returned in this iteration
    consumed,      \* history: what stdin delivered to the current read_key call
    exit_code,     \* the process exit status, NoExit while it runs
    panic,         \* the panic message of the process, "" while there is none
    restore_calls, \* history: tcsetattr calls made by exit() with the saved mode
    setup_error,   \* history: the start-up call that failed, "none" otherwise
    downs,         \* history: ArrowDown keys dispatched so far while no other key was, else Mixed
    build          \* "any" until an unchecked overflow wrapped, then "release"

vars == <<pc, editor, term_attrs, screen, rk, key, consumed, exit_code, panic,
          restore_calls, setup_error, downs, build>>

----------------------------------------------------------------------------
(* Bounds of the model *)

\* a loaded file has 0..MaxLines lines
MaxLines == 3
\* the terminal is 1..MaxTermRows rows high
MaxTermRows == 3
\* zero-byte reads and NUL bytes recorded for one read_key call
MaxIdle == 1
\* ArrowDown presses counted by the history variable downs
MaxDowns == 5

\* terminal widths: too narrow for any status bar, and wide enough for the longest
TermCols == {40, 61}

----------------------------------------------------------------------------
(* Key codes and bytes *)

\* ARROW_UP given a code inside the range of a byte, that of 'q'
ARROW_UP_in_byte_range == 100 + 13

ARROW_UP == 1000
ARROW_DOWN == 1001
ARROW_RIGHT == 1002
ARROW_LEFT == 1003
HOME == 1004
END == 1005
DEL == 1006
PAGE_UP == 1007
PAGE_DOWN == 1008

ESC == 27
CSI == 91
SS3 == 79
TILDE == 126
KEY_Q == 113
CH_A == 65
CH_B == 66
CH_C == 67
CH_D == 68
CH_F == 70
CH_H == 72
CH_0 == 48
CH_9 == 57

\* the values of a u8
Byte == 0 .. 255
\* a zero-byte read of stdin, as it is recorded in consumed
Timeout == 0 - 1
\* last_char before read_key has returned in this iteration
NoKey == 0 - 1
\* the exit status of a process that still runs
NoExit == 0 - 1
\* downs, once a key other than ArrowDown was dispatched or MaxDowns is passed
Mixed == 0 - 1

\* the status of a process that panicked
PANIC_STATUS == 101

\* `c as u16` for a char made from a byte
AsU16(c) == c % 65536

\* char::from_u32: None for a surrogate or a value past U+10FFFF
CharFromU32(k) ==
    IF (k >= 55296 /\ k <= 57343) \/ k > 1114111 THEN <<>> ELSE <<k>>

\* the status process::exit(rc) gives the parent
ExitStatus(rc) == rc % 256

Max(S) == CHOOSE x \in S : \A y \in S : y <= x
Min(a, b) == IF a <= b THEN a ELSE b

----------------------------------------------------------------------------
(* Option<T> as a sequence of length 0 or 1 *)

None == <<>>
Some(v) == <<v>>
IsSome(o) == Len(o) = 1
Unwrap(o) == o[1]

----------------------------------------------------------------------------
(* Text *)

Digits == <<"0", "1", "2", "3", "4", "5", "6", "7", "8", "9">>

RECURSIVE to_string(_)
\* usize::to_string: the decimal digits of n
to_string(n) ==
    IF n < 10 THEN <<Digits[n + 1]>>
    ELSE to_string(n \div 10) \o <<Digits[(n % 10) + 1]>>

Repeat(c, n) == [i \in 1 .. n |-> c]

\* " Ari Code's Editor - v0.0.1 - Rust Edition - "
STATUS_PREFIX ==
    <<" ", "A", "r", "i", " ", "C", "o", "d", "e", "'", "s", " ", "E", "d", "i",
      "t", "o", "r", " ", "-", " ", "v", "0", ".", "0", ".", "1", " ", "-", " ",
      "R", "u", "s", "t", " ", "E", "d", "i", "t", "i", "o", "n", " ", "-", " ">>

NEW_FILE == <<"N", "e", "w", " ", "F", "i", "l", "e">>
LINE_LABEL == <<"L", "i", "n", "e", ":", " ">>

\* control sequences, one token each
SEQ_HOME == "ESC[H"
SEQ_ERASE_LINE == "ESC[K"
SEQ_REVERSE == "ESC[7m"
SEQ_RESET == "ESC[0m"
SEQ_CLEAR == "ESC[2J"

\* the index after the last '/' of file_path (0 when there is none)
last_slash_index(file_path) ==
    LET S == {i \in 1 .. Len(file_path) : file_path[i] = "/"}
    IN  IF S = {} THEN 0 ELSE Max(S)

extract_filename(file_path) ==
    SubSeq(file_path, last_slash_index(file_path) + 1, Len(file_path))

----------------------------------------------------------------------------
(* The terminal device *)

\* the termios fields the program touches
COOKED ==
    [echo |-> TRUE, icanon |-> TRUE, iexten |-> TRUE, isig |-> TRUE,
     ixon |-> TRUE, icrnl |-> TRUE, opost |-> TRUE, vmin |-> 1, vtime |-> 0]

\* the changes enable_raw_mode makes to the termios it read
raw_attributes(t) ==
    [t EXCEPT !.echo = FALSE, !.icanon = FALSE, !.iexten = FALSE, !.isig = FALSE,
              !.ixon = FALSE, !.icrnl = FALSE, !.opost = FALSE,
              !.vmin = 0, !.vtime = 1]

\* what tcgetattr / tcsetattr return
TcResults == {0, 0 - 1}

\* term_size::dimensions(): None without a terminal, else (columns, rows), both >= 1
Dimensions ==
    {None} \cup {Some(<<c, r>>) : c \in TermCols, r \in 1 .. MaxTermRows}

----------------------------------------------------------------------------
(* The files open_editor may be given *)

\* the i-th line of a modelled file
LineText(i) == <<"l", Digits[(i % 10) + 1]>>

\* what BufReader::lines yields for a file of n lines: Ok(text) for each line
GoodFile(n) == [i \in 1 .. n |-> Some(LineText(i))]

\* a file whose second line cannot be decoded: lines() yields Err for it
BadLineFile == [i \in 1 .. 2 |-> IF i = 2 THEN None ELSE Some(LineText(i))]

DiskFiles == {GoodFile(n) : n \in 0 .. MaxLines} \cup {BadLineFile}

PATH_PLAIN == <<"a", ".", "t", "x", "t">>
PATH_IN_DIR == <<"d", "/", "a", ".", "t", "x", "t">>
PROGRAM == <<"e", "d">>

\* env::args(): the program name and zero, one or two arguments
ArgvChoices ==
    {<<PROGRAM>>, <<PROGRAM, PATH_PLAIN>>, <<PROGRAM, PATH_IN_DIR>>,
     <<PROGRAM, PATH_PLAIN, PATH_IN_DIR>>}

\* File::open: Err, or one of the modelled files
OpenResults == {None} \cup {Some(f) : f \in DiskFiles}

RECURSIVE ok_lines(_)
\* the lines the loop of open_editor pushes: those that are Ok
ok_lines(results) ==
    IF results = <<>> THEN <<>>
    ELSE (IF IsSome(Head(results)) THEN <<Unwrap(Head(results))>> ELSE <<>>)
         \o ok_lines(Tail(results))

\* the Editor main() builds
NewEditor ==
    [cursor_x |-> 0, cursor_y |-> 0, columns |-> 0, rows |-> 0, offset_y |-> 0,
     original_terminal_props |-> None, content |-> <<>>, filename |-> <<>>]

\* open_editor on the arguments args, File::open returning opened
open_editor(e, args, opened) ==
    IF Len(args) = 2 /\ IsSome(opened)
    THEN [e EXCEPT !.content = e.content \o ok_lines(Unwrap(opened)),
                   !.filename = extract_filename(args[2])]
    ELSE e

----------------------------------------------------------------------------
(* The viewport *)

\* scroll with the "+ 1" of the scroll-down branch left out
scroll_without_plus_one(e) ==
    IF e.cursor_y >= e.rows + e.offset_y
    THEN [e EXCEPT !.offset_y = e.cursor_y - e.rows]
    ELSE IF e.cursor_y < e.offset_y
         THEN [e EXCEPT !.offset_y = e.cursor_y]
         ELSE e

\* scroll putting the cursor's line on the first row when it moves the window down
scroll_cursor_to_top(e) ==
    IF e.cursor_y >= e.rows + e.offset_y
    THEN [e EXCEPT !.offset_y = e.cursor_y]
    ELSE IF e.cursor_y < e.offset_y
         THEN [e EXCEPT !.offset_y = e.cursor_y]
         ELSE e

\* scroll without its second branch: the window never moves up
scroll_down_only(e) ==
    IF e.cursor_y >= e.rows + e.offset_y
    THEN [e EXCEPT !.offset_y = e.cursor_y - e.rows + 1]
    ELSE e

scroll(e) ==
    IF e.cursor_y >= e.rows + e.offset_y
    THEN [e EXCEPT !.offset_y = e.cursor_y - e.rows + 1]
    ELSE IF e.cursor_y < e.offset_y
         THEN [e EXCEPT !.offset_y = e.cursor_y]
         ELSE e

\* move_cursor with one arm changed: which names the change
move_cursor_variant(which, k, e) ==
    CASE k = ARROW_UP ->
           IF e.cursor_y > 0 THEN [e EXCEPT !.cursor_y = @ - 1] ELSE e
      [] k = ARROW_DOWN ->
           IF which = "down_past_end"
           THEN IF e.cursor_y <= Len(e.content) THEN [e EXCEPT !.cursor_y = @ + 1] ELSE e
           ELSE IF which = "down_to_last_line"
                THEN IF e.cursor_y < Len(e.content) - 1
                     THEN [e EXCEPT !.cursor_y = @ + 1] ELSE e
                ELSE IF e.cursor_y < Len(e.content)
                     THEN [e EXCEPT !.cursor_y = @ + 1] ELSE e
      [] k = ARROW_LEFT ->
           IF e.cursor_x > 0 THEN [e EXCEPT !.cursor_x = @ - 1] ELSE e
      [] k = ARROW_RIGHT ->
           IF e.cursor_x < e.columns - 1 THEN [e EXCEPT !.cursor_x = @ + 1] ELSE e
      [] k = HOME -> [e EXCEPT !.cursor_x = 0]
      [] k = END ->
           IF which = "end_at_columns"
           THEN [e EXCEPT !.cursor_x = e.columns]
           ELSE [e EXCEPT !.cursor_x = e.columns - 1]
      [] OTHER -> e

\* ArrowDown allowed while cursor_y <= content.len()
move_cursor_down_past_end(k, e) == move_cursor_variant("down_past_end", k, e)
\* ArrowDown stopping on the last line
move_cursor_down_to_last_line(k, e) == move_cursor_variant("down_to_last_line", k, e)
\* End putting the cursor at columns
move_cursor_end_at_columns(k, e) == move_cursor_variant("end_at_columns", k, e)

\* ArrowDown also taking the cursor to the start of the line
move_cursor_down_to_line_start(k, e) ==
    IF k = ARROW_DOWN
    THEN [move_cursor_variant("", k, e) EXCEPT !.cursor_x = 0]
    ELSE move_cursor_variant("", k, e)

move_cursor(k, e) ==
    CASE k = ARROW_UP ->
           IF e.cursor_y > 0 THEN [e EXCEPT !.cursor_y = @ - 1] ELSE e
      [] k = ARROW_DOWN ->
           IF e.cursor_y < Len(e.content) THEN [e EXCEPT !.cursor_y = @ + 1] ELSE e
      [] k = ARROW_LEFT ->
           IF e.cursor_x > 0 THEN [e EXCEPT !.cursor_x = @ - 1] ELSE e
      [] k = ARROW_RIGHT ->
           IF e.cursor_x < e.columns - 1 THEN [e EXCEPT !.cursor_x = @ + 1] ELSE e
      [] k = HOME -> [e EXCEPT !.cursor_x = 0]
      [] k = END -> [e EXCEPT !.cursor_x = e.columns - 1]
      [] OTHER -> e

\* the keys handle_key passes to move_cursor
MOVE_KEYS == {ARROW_UP, ARROW_DOWN, ARROW_LEFT, ARROW_RIGHT, HOME, END}

\* handle_key taking PageDown for ArrowDown
handle_key_page_down_moves(k, e) ==
    IF k = KEY_Q
    THEN [do |-> "exit", editor |-> e]
    ELSE IF k \in MOVE_KEYS
         THEN [do |-> "loop", editor |-> move_cursor(k, e)]
         ELSE IF k = PAGE_DOWN
              THEN [do |-> "loop", editor |-> move_cursor(ARROW_DOWN, e)]
              ELSE [do |-> "loop", editor |-> e]

\* handle_key up to its call of exit(): what it does and the Editor it leaves
handle_key(k, e) ==
    IF CharFromU32(k) = None
    THEN [do |-> "panic", editor |-> e]
    ELSE IF Unwrap(CharFromU32(k)) = KEY_Q
         THEN IF IsSome(e.original_terminal_props)
              THEN [do |-> "exit", editor |-> e]
              ELSE [do |-> "panic", editor |-> e]
         ELSE IF k \in MOVE_KEYS
              THEN [do |-> "loop", editor |-> move_cursor(k, e)]
              ELSE [do |-> "loop", editor |-> e]

----------------------------------------------------------------------------
(* The frame *)

get_file_name(e) == IF Len(e.filename) = 0 THEN NEW_FILE ELSE e.filename

\* one row of the viewport: the line's text or "~", then erase-to-end-of-line, CR, LF
content_row(e, i) ==
    (IF e.offset_y + i >= Len(e.content)
     THEN <<"~">>
     ELSE e.content[e.offset_y + i + 1])
    \o <<SEQ_ERASE_LINE, "CR", "LF">>

RECURSIVE content_rows(_, _)
\* rows 0 .. n-1 of the viewport
content_rows(e, n) ==
    IF n = 0 THEN <<>> ELSE content_rows(e, n - 1) \o content_row(e, n - 1)

draw_content(e) == content_rows(e, e.rows)

status_message(e) == STATUS_PREFIX \o get_file_name(e)
info_message(e) == LINE_LABEL \o to_string(e.cursor_y) \o <<" ">>

\* columns - status_message.len() - info_message.len() in usize: None when it
\* underflows (a checked build panics at the subtraction, an unchecked one in
\* str::repeat, which cannot allocate the wrapped length)
status_padding(e) ==
    IF e.columns < Len(status_message(e)) + Len(info_message(e))
    THEN None
    ELSE Some(e.columns - Len(status_message(e)) - Len(info_message(e)))

\* what draw_status_bar appends, None when it panics
draw_status_bar(e) ==
    IF status_padding(e) = None
    THEN None
    ELSE Some(<<SEQ_REVERSE>> \o status_message(e)
              \o Repeat(" ", Unwrap(status_padding(e)))
              \o info_message(e) \o <<SEQ_RESET>>)

\* draw_cursor giving the row counted from 0
draw_cursor_row_from_zero(e, checked) ==
    IF e.cursor_y < e.offset_y /\ checked
    THEN None
    ELSE Some(<<e.cursor_y - e.offset_y, e.cursor_x + 1>>)

\* the row and column of the cursor-positioning sequence. cursor_y - offset_y
\* underflows when the cursor is above the window: with overflow checks the
\* program panics (None); without them the difference wraps, and a value below
\* 0 here stands for that value plus 2^64.
draw_cursor(e, checked) ==
    IF e.cursor_y < e.offset_y /\ checked
    THEN None
    ELSE Some(<<e.cursor_y - e.offset_y + 1, e.cursor_x + 1>>)

\* the buffer refresh_screen builds; panic names the panic of a draw function
refresh_screen(e, checked) ==
    IF draw_status_bar(e) = None
    THEN [panic |-> "draw_status_bar: subtract with overflow",
          buffer |-> <<>>, cursor |-> <<>>]
    ELSE IF draw_cursor(e, checked) = None
         THEN [panic |-> "draw_cursor: subtract with overflow",
               buffer |-> <<>>, cursor |-> <<>>]
         ELSE [panic |-> "",
               buffer |-> <<SEQ_HOME>> \o draw_content(e)
                          \o Unwrap(draw_status_bar(e)),
               cursor |-> Unwrap(draw_cursor(e, checked))]

\* the screen before anything is written
BlankScreen == [panic |-> "", buffer |-> <<>>, cursor |-> <<>>]

\* what exit() has written after n successful writes
exit_screen(n) ==
    [panic |-> "", buffer |-> SubSeq(<<SEQ_CLEAR, SEQ_HOME>>, 1, n), cursor |-> <<>>]

----------------------------------------------------------------------------
(* The key decoder *)

\* read_key's frame outside a call, and at its first read()
IdleFrame == [site |-> 0, next_key |-> 0, yet_another_key |-> 0]
StartFrame == [site |-> 1, next_key |-> 0, yet_another_key |-> 0]

\* the loop of read(): it goes on while the buffer holds 0
read_returns(buffer) == buffer # 0

Return(k) == [ret |-> Some(k), frame |-> IdleFrame]
ReadOn(f) == [ret |-> None, frame |-> f]

IsDigit(c) == c >= CH_0 /\ c <= CH_9

\* the match on the digit of ESC [ digit ~
tilde_key(digit) ==
    CASE digit = CH_0 + 1 \/ digit = CH_0 + 7 -> HOME
      [] digit = CH_0 + 3 -> DEL
      [] digit = CH_0 + 4 \/ digit = CH_0 + 8 -> END
      [] digit = CH_0 + 5 -> PAGE_UP
      [] digit = CH_0 + 6 -> PAGE_DOWN
      [] OTHER -> AsU16(digit)

\* csi_key with the codes of 'C' and 'D' exchanged
csi_key_right_left_swapped(c) ==
    CASE c = CH_A -> ARROW_UP
      [] c = CH_B -> ARROW_DOWN
      [] c = CH_C -> ARROW_LEFT
      [] c = CH_D -> ARROW_RIGHT
      [] c = CH_H -> HOME
      [] c = CH_F -> END
      [] OTHER -> AsU16(c)

\* the match on the byte after ESC [, for a byte that is no digit
csi_key(c) ==
    CASE c = CH_A -> ARROW_UP
      [] c = CH_B -> ARROW_DOWN
      [] c = CH_C -> ARROW_RIGHT
      [] c = CH_D -> ARROW_LEFT
      [] c = CH_H -> HOME
      [] c = CH_F -> END
      [] OTHER -> AsU16(c)

\* the match on the byte after ESC O
ss3_key(c) ==
    CASE c = CH_H -> HOME
      [] c = CH_F -> END
      [] OTHER -> AsU16(c)

\* read_key resumed at the read() call f.site with the char c that read() returned:
\* the key it returns, or the frame in which it calls read() again
read_key(f, c) ==
    CASE f.site = 1 ->
           IF c # ESC THEN Return(AsU16(c)) ELSE ReadOn([f EXCEPT !.site = 2])
      [] f.site = 2 ->
           IF c # CSI /\ c # SS3 THEN Return(AsU16(c))
           ELSE ReadOn([f EXCEPT !.site = 3, !.next_key = c])
      [] f.site = 3 ->
           IF f.next_key = CSI
           THEN IF IsDigit(c)
                THEN ReadOn([f EXCEPT !.site = 4, !.yet_another_key = c])
                ELSE Return(csi_key(c))
           ELSE Return(ss3_key(c))
      [] f.site = 4 ->
           IF c # TILDE THEN Return(AsU16(c)) ELSE Return(tilde_key(f.yet_another_key))

----------------------------------------------------------------------------
(* The program *)

\* the bytes the keyboard sends in the whole-program specification: those of
\* the escape sequences and 'q'
InputBytes ==
    {ESC, CSI, SS3, CH_A, CH_B, CH_C, CH_D, CH_H, CH_F, CH_0 + 3, CH_0 + 5,
     CH_0 + 6, TILDE, KEY_Q}

\* zero-byte reads and NUL bytes given to the current read_key call
Idle(seq) == Cardinality({i \in 1 .. Len(seq) : seq[i] = Timeout \/ seq[i] = 0})

Init ==
    /\ pc = "open_editor"
    /\ editor = NewEditor
    /\ term_attrs = COOKED
    /\ screen = BlankScreen
    /\ rk = IdleFrame
    /\ key = NoKey
    /\ consumed = <<>>
    /\ exit_code = NoExit
    /\ panic = ""
    /\ restore_calls = 0
    /\ setup_error = {}
    /\ downs = 0
    /\ build = "any"

\* a panic unwinds main(): the process ends with status 101, nothing else runs
Panic(msg) ==
    /\ pc' = "terminated"
    /\ exit_code' = PANIC_STATUS
    /\ panic' = msg

OpenEditor ==
    /\ pc = "open_editor"
    /\ \E args \in ArgvChoices, opened \in OpenResults :
          editor' = open_editor(editor, args, opened)
    /\ pc' = "enable_raw_mode"
    /\ UNCHANGED <<term_attrs, screen, rk, key, consumed, exit_code, panic,
                   restore_calls, setup_error, downs, build>>

EnableRawMode ==
    /\ pc = "enable_raw_mode"
    /\ \E rc_get \in TcResults, rc_set \in TcResults :
          IF rc_get # 0
          THEN /\ pc' = "terminated"
               /\ exit_code' = ExitStatus(rc_get)
               /\ setup_error' = setup_error \cup {"tcgetattr"}
               /\ UNCHANGED <<editor, term_attrs>>
          ELSE /\ term_attrs' = IF rc_set = 0 THEN raw_attributes(term_attrs)
                                              ELSE term_attrs
               /\ editor' = [editor EXCEPT !.original_terminal_props = Some(term_attrs)]
               /\ setup_error' = IF rc_set = 0 THEN setup_error
                                               ELSE setup_error \cup {"tcsetattr"}
               /\ pc' = "set_window_size"
               /\ UNCHANGED exit_code
    /\ UNCHANGED <<screen, rk, key, consumed, panic, restore_calls, downs, build>>

SetWindowSize ==
    /\ pc = "set_window_size"
    /\ \E dims \in Dimensions :
          IF dims = None
          THEN /\ Panic("Unable to get terminal size")
               /\ setup_error' = setup_error \cup {"dimensions"}
               /\ UNCHANGED editor
          ELSE /\ editor' = [editor EXCEPT !.columns = Unwrap(dims)[1],
                                           !.rows = Unwrap(dims)[2] - 1]
               /\ pc' = "scroll"
               /\ UNCHANGED <<exit_code, panic, setup_error>>
    /\ UNCHANGED <<term_attrs, screen, rk, key, consumed, restore_calls, downs, build>>

\* the loop going from scroll() to read_key(), no frame rendered
ScrollThenReadKey ==
    /\ pc = "scroll"
    /\ editor' = scroll(editor)
    /\ key' = NoKey
    /\ rk' = StartFrame
    /\ pc' = "read_key"
    /\ UNCHANGED <<term_attrs, screen, consumed, exit_code, panic,
                   restore_calls, setup_error, downs, build>>

Scroll ==
    /\ pc = "scroll"
    /\ editor' = scroll(editor)
    /\ key' = NoKey
    /\ pc' = "refresh_screen"
    /\ UNCHANGED <<term_attrs, screen, rk, consumed, exit_code, panic,
                   restore_calls, setup_error, downs, build>>

RefreshScreen ==
    /\ pc = "refresh_screen"
    /\ \E checked \in (IF build = "release" THEN {FALSE} ELSE BOOLEAN),
          write_ok \in BOOLEAN :
          LET frame == refresh_screen(editor, checked)
          IN  IF frame.panic # ""
              THEN /\ Panic(frame.panic)
                   /\ UNCHANGED <<screen, rk, build>>
              ELSE IF ~write_ok
                   THEN /\ Panic("Error writing to output stream")
                        /\ UNCHANGED <<screen, rk, build>>
                   ELSE /\ screen' = frame
                        /\ rk' = StartFrame
                        /\ pc' = "read_key"
                        /\ build' = IF editor.cursor_y < editor.offset_y
                                     THEN "release" ELSE build
                        /\ UNCHANGED <<exit_code, panic>>
    /\ UNCHANGED <<editor, term_attrs, key, consumed, restore_calls, setup_error, downs>>

\* stdin.read returns Ok(0): the buffer keeps its 0 and read() loops
StdinTimeout ==
    /\ pc = "read_key"
    /\ Idle(consumed) < MaxIdle
    /\ consumed' = Append(consumed, Timeout)
    /\ UNCHANGED <<pc, editor, term_attrs, screen, rk, key, exit_code, panic,
                   restore_calls, setup_error, downs, build>>

\* stdin.read returns Ok(1) with the byte b
StdinByte(b) ==
    /\ pc = "read_key"
    /\ b = 0 => Idle(consumed) < MaxIdle
    /\ consumed' = Append(consumed, b)
    /\ IF ~read_returns(b)
       THEN UNCHANGED <<pc, rk, key>>
       ELSE LET r == read_key(rk, b)
            IN  /\ rk' = r.frame
                /\ key' = IF IsSome(r.ret) THEN Unwrap(r.ret) ELSE key
                /\ pc' = IF IsSome(r.ret) THEN "handle_key" ELSE pc
    /\ UNCHANGED <<editor, term_attrs, screen, exit_code, panic, restore_calls,
                   setup_error, downs, build>>

\* stdin.read returns Err
StdinError ==
    /\ pc = "read_key"
    /\ Panic("Error reading user input")
    /\ UNCHANGED <<editor, term_attrs, screen, rk, key, consumed, restore_calls,
                   setup_error, downs, build>>

\* handle_key, and exit() when the key is 'q': written is the number of exit()'s
\* two writes that succeed, rc what its tcsetattr returns
HandleKey ==
    /\ pc = "handle_key"
    /\ LET h == handle_key(key, editor)
       IN  CASE h.do = "loop" ->
                  /\ editor' = h.editor
                  /\ pc' = "scroll"
                  /\ consumed' = <<>>
                  /\ downs' = IF downs # Mixed /\ key = ARROW_DOWN /\ downs < MaxDowns
                               THEN downs + 1 ELSE Mixed
                  /\ UNCHANGED <<term_attrs, screen, exit_code, panic, restore_calls>>
             [] h.do = "panic" ->
                  /\ Panic("called Option::unwrap() on a None value")
                  /\ UNCHANGED <<editor, term_attrs, screen, consumed, restore_calls, downs>>
             [] h.do = "exit" ->
                  \E written \in 0 .. 2, rc \in TcResults :
                     /\ screen' = exit_screen(written)
                     /\ IF written < 2
                        THEN /\ Panic("Error writing to output stream")
                             /\ UNCHANGED <<term_attrs, restore_calls>>
                        ELSE /\ term_attrs' =
                                  IF rc = 0 THEN Unwrap(editor.original_terminal_props)
                                            ELSE term_attrs
                             /\ restore_calls' = restore_calls + 1
                             /\ pc' = "terminated"
                             /\ exit_code' = ExitStatus(0)
                             /\ UNCHANGED panic
                     /\ UNCHANGED <<editor, consumed, downs>>
    /\ UNCHANGED <<rk, key, setup_error, build>>

\* The whole program. A zero-byte read and a NUL byte leave every variable of
\* the program as it is (read() loops, its buffer still 0), so they are left
\* out here; KeySpec has them.
Next ==
    \/ OpenEditor
    \/ EnableRawMode
    \/ SetWindowSize
    \/ Scroll
    \/ RefreshScreen
    \/ \E b \in InputBytes : StdinByte(b)
    \/ StdinError
    \/ HandleKey

Spec == Init /\ [][Next]_vars

----------------------------------------------------------------------------
(* One call of read_key, on every byte stream *)

\* the program at its first read_key: no file, a terminal of 61 x 2 in raw
\* mode, the first frame on the screen
KeyInit ==
    /\ pc = "read_key"
    /\ editor = [NewEditor EXCEPT !.columns = 61, !.rows = 1,
                                  !.original_terminal_props = Some(COOKED)]
    /\ term_attrs = raw_attributes(COOKED)
    /\ screen = refresh_screen(editor, TRUE)
    /\ rk = StartFrame
    /\ key = NoKey
    /\ consumed = <<>>
    /\ exit_code = NoExit
    /\ panic = ""
    /\ restore_calls = 0
    /\ setup_error = {}
    /\ downs = 0
    /\ build = "any"

KeyNext ==
    \/ StdinTimeout
    \/ \E b \in Byte : StdinByte(b)
    \/ StdinError

KeySpec == KeyInit /\ [][KeyNext]_vars

----------------------------------------------------------------------------
(* Properties *)

\* the statements of the loop of main()
LoopPcs == {"scroll", "refresh_screen", "read_key", "handle_key"}

\* the states in which the scroll adjustment of this iteration is the last
\* change made to the Editor
Scrolled == pc \in {"refresh_screen", "read_key", "handle_key"}

CursorVisible == /\ editor.offset_y <= editor.cursor_y
                 /\ editor.cursor_y < editor.offset_y + editor.rows

\* C1 as stated: after every scroll adjustment offset_y <= cursor_y < offset_y + rows,
\* for every usable height rows >= 0. Fails with rows = 0 (a terminal one row high).
C1_CursorVisibleEveryHeight == Scrolled => CursorVisible

\* C1 amended: after every scroll adjustment offset_y <= cursor_y < offset_y + rows,
\* for every content length, every usable height rows >= 1 and every sequence of keys.
C1_CursorVisibleAfterScroll == (Scrolled /\ editor.rows >= 1) => CursorVisible

\* the window of a two-row viewport has followed the cursor to the trailing position
C1_Witness ==
    /\ pc = "refresh_screen"
    /\ editor.rows = 2
    /\ Len(editor.content) = 3
    /\ editor.cursor_y = 3
    /\ editor.offset_y = 2

\* C2: 0 <= cursor_y <= content.len() in every reachable state, for every content
\* and every sequence of keys.
C2_CursorYWithinContent ==
    /\ 0 <= editor.cursor_y
    /\ editor.cursor_y <= Len(editor.content)

\* more ArrowDown keys were dispatched than the file has lines
C2_Witness ==
    /\ Len(editor.content) = 2
    /\ downs = 4
    /\ editor.cursor_y = 2

\* C3: with columns >= 1, 0 <= cursor_x <= columns - 1 in every reachable state;
\* after Home is dispatched cursor_x = 0, after End cursor_x = columns - 1.
C3_CursorXWithinColumns ==
    editor.columns >= 1 =>
        /\ 0 <= editor.cursor_x
        /\ editor.cursor_x <= editor.columns - 1
        /\ (pc = "scroll" /\ key = HOME) => editor.cursor_x = 0
        /\ (pc = "scroll" /\ key = END) => editor.cursor_x = editor.columns - 1

\* End was dispatched on a terminal 61 columns wide
C3_Witness ==
    /\ pc = "scroll"
    /\ key = END
    /\ editor.columns = 61
    /\ editor.cursor_x = 60

\* the eleven byte sequences of C4 and the keys they stand for
KnownSequences ==
    {[bytes |-> <<ESC, CSI, CH_A>>, key |-> ARROW_UP],
     [bytes |-> <<ESC, CSI, CH_B>>, key |-> ARROW_DOWN],
     [bytes |-> <<ESC, CSI, CH_C>>, key |-> ARROW_RIGHT],
     [bytes |-> <<ESC, CSI, CH_D>>, key |-> ARROW_LEFT],
     [bytes |-> <<ESC, CSI, CH_H>>, key |-> HOME],
     [bytes |-> <<ESC, CSI, CH_F>>, key |-> END],
     [bytes |-> <<ESC, SS3, CH_H>>, key |-> HOME],
     [bytes |-> <<ESC, SS3, CH_F>>, key |-> END],
     [bytes |-> <<ESC, CSI, CH_0 + 3, TILDE>>, key |-> DEL],
     [bytes |-> <<ESC, CSI, CH_0 + 5, TILDE>>, key |-> PAGE_UP],
     [bytes |-> <<ESC, CSI, CH_0 + 6, TILDE>>, key |-> PAGE_DOWN]}

\* s is a proper prefix of t
ProperPrefix(s, t) == Len(s) < Len(t) /\ SubSeq(t, 1, Len(s)) = s

\* C4: when stdin has delivered exactly the bytes of one of the eleven sequences,
\* read_key has returned the key of that sequence, and it never reads a byte
\* that follows the sequence.
C4_KnownSequencesDecoded ==
    \A s \in KnownSequences :
        /\ consumed = s.bytes => (pc = "handle_key" /\ key = s.key /\ rk = IdleFrame)
        /\ ~ProperPrefix(s.bytes, consumed)

\* ESC [ 3 ~ was read and Delete returned
C4_Witness ==
    /\ consumed = <<ESC, CSI, CH_0 + 3, TILDE>>
    /\ pc = "handle_key"
    /\ key = DEL

\* C5 as stated: when the one byte stdin has delivered is any byte but ESC,
\* read_key has returned it as a literal key. Fails for the byte 0.
C5_SingleByteLiteral ==
    \A b \in Byte \ {ESC} :
        consumed = <<b>> => (pc = "handle_key" /\ key = b)

\* C6 as stated: once 'q' has been dispatched the process has ended with exit
\* code 0 and the saved terminal configuration was re-applied exactly once.
\* Fails when a write of exit() fails.
C6_QuitRestoresAndExitsZero ==
    (pc = "terminated" /\ key = KEY_Q) =>
        (exit_code = 0 /\ panic = "" /\ restore_calls = 1)

\* the index of the first token tok of the buffer, 0 when there is none
IndexOf(buffer, tok) ==
    LET S == {i \in 1 .. Len(buffer) : buffer[i] = tok}
    IN  IF S = {} THEN 0 ELSE CHOOSE i \in S : \A j \in S : i <= j

\* the characters of a frame between reverse-video-on and reset
StatusLine(buffer) ==
    SubSeq(buffer, IndexOf(buffer, SEQ_REVERSE) + 1, IndexOf(buffer, SEQ_RESET) - 1)

\* C7 as stated: for every width columns >= 1 draw_status_bar completes, and the
\* frame holds exactly columns characters between the reverse-video markers.
\* Fails when columns is less than the two segments together (columns = 40).
C7_StatusBarFillsWidth ==
    /\ panic # "draw_status_bar: subtract with overflow"
    /\ pc \in {"read_key", "handle_key"} =>
           Len(StatusLine(screen.buffer)) = editor.columns

\* C8: after n ArrowDown keys and no other key, cursor_y = min(n, content.len()).
C8_ArrowDownClamped ==
    downs # Mixed => editor.cursor_y = Min(downs, Len(editor.content))

\* a file of 3 lines and 5 ArrowDown keys
C8_Witness ==
    /\ Len(editor.content) = 3
    /\ downs = 5
    /\ editor.cursor_y = 3

\* C9: dispatching a key that is neither 'q' nor one of the six movement keys
\* changes no field of the Editor, leaves the terminal as it is and goes on
\* with the loop.
C9_OtherKeysIgnored ==
    [][(pc = "handle_key" /\ key \notin MOVE_KEYS \cup {KEY_Q}) =>
          (editor' = editor /\ term_attrs' = term_attrs /\ pc' = "scroll")]_vars

\* PageDown was dispatched on a file whose cursor could have moved down
C9_Witness ==
    /\ pc = "scroll"
    /\ key = PAGE_DOWN
    /\ editor.cursor_y < Len(editor.content)

\* C10 as stated: after a failed tcgetattr, tcsetattr or terminal-size query the
\* program never enters the loop, writes no frame, reads no key, and ends with
\* a non-zero status. Fails for tcsetattr, whose result is not looked at.
C10_SetupFailureIsFatal ==
    setup_error # {} =>
        /\ pc \notin LoopPcs
        /\ screen = BlankScreen
        /\ consumed = <<>>
        /\ pc = "terminated" => (exit_code # 0 /\ exit_code # NoExit)

\* C11 as stated: once raw mode has been entered, a process that has ended has
\* restored the saved terminal configuration exactly once, whatever ended it
\* (the quit key, the failed size query, a failure while rendering or reading),
\* and no restore happens while the loop runs. Fails on every panic: the
\* process ends with the terminal still raw and no restore made.
C11_RestoredOnceOnEveryExit ==
    /\ (pc = "terminated" /\ IsSome(editor.original_terminal_props)
          /\ "tcsetattr" \notin setup_error) => restore_calls = 1
    /\ pc # "terminated" => restore_calls = 0

\* the states in which the frame on the screen is the one rendered in this
\* iteration of the loop
FrameRendered == pc \in {"read_key", "handle_key"}

\* what C12 says of a rendered frame: the cursor-positioning sequence carries
\* row cursor_y - offset_y + 1 and column cursor_x + 1, the row is one of the
\* content rows 1 .. rows (so not the status bar row rows + 1), the column
\* one of 1 .. columns, and the subtraction did not go below 0
CursorInsideContent ==
    /\ screen.cursor = <<editor.cursor_y - editor.offset_y + 1, editor.cursor_x + 1>>
    /\ editor.cursor_y >= editor.offset_y
    /\ 1 <= screen.cursor[1] /\ screen.cursor[1] <= editor.rows
    /\ 1 <= screen.cursor[2] /\ screen.cursor[2] <= editor.columns

\* C12 as stated: every rendered frame places the cursor inside the content
\* region, for every terminal size. Fails on a terminal one row high (rows = 0),
\* which has no content row.
C12_CursorInsideContentEverySize ==
    /\ FrameRendered => CursorInsideContent
    /\ panic # "draw_cursor: subtract with overflow"

\* C12: on a terminal at least two rows high (rows >= 1) every rendered frame
\* places the cursor at row cursor_y - offset_y + 1 in 1 .. rows and column
\* cursor_x + 1 in 1 .. columns, and draw_cursor's subtraction never underflows.
C12_CursorInsideContent ==
    editor.rows >= 1 =>
        /\ FrameRendered => CursorInsideContent
        /\ panic # "draw_cursor: subtract with overflow"

\* a frame with the cursor on the last content row and in the last column,
\* the window scrolled down
C12_Witness ==
    /\ pc = "read_key"
    /\ editor.rows = 2
    /\ editor.offset_y = 1
    /\ screen.cursor = <<2, editor.columns>>

\* the statement of the loop that follows statement p
NextInLoop(p) ==
    CASE p = "scroll" -> "refresh_screen"
      [] p = "refresh_screen" -> "read_key"
      [] p = "read_key" -> "handle_key"
      [] p = "handle_key" -> "scroll"

\* one step of the running loop: control goes from a statement to the one
\* after it (or the process ends), and stays only inside read_key, which
\* waits for the bytes of one key and touches neither the Editor nor the screen
LoopStepInOrder ==
    pc \in LoopPcs =>
        /\ pc' # pc => pc' \in {NextInLoop(pc), "terminated"}
        /\ pc' = pc => (pc = "read_key" /\ editor' = editor /\ screen' = screen)

\* a frame is written only by refresh_screen, right after the scroll() that
\* followed the last dispatch (Scroll clears key), and the Editor changes only
\* in scroll() and handle_key()
FrameAfterScroll ==
    /\ (screen' # screen /\ pc' # "terminated") =>
          (pc = "refresh_screen" /\ pc' = "read_key" /\ key = NoKey
             /\ screen' \in {refresh_screen(editor, c) : c \in BOOLEAN})
    /\ (editor' # editor /\ pc \in LoopPcs) => pc \in {"scroll", "handle_key"}

\* C13: while the loop runs each iteration does scroll, render, read one key,
\* dispatch, in this order and once each; a frame is rendered only from a
\* state scroll() has adjusted since the last dispatch; the key dispatched is
\* dispatched with the frame of this iteration, rendered from the very Editor
\* state it acts on, on the screen.
C13_LoopOrder ==
    /\ [](FrameRendered => (screen.panic = ""
                            /\ screen \in {refresh_screen(editor, c) : c \in BOOLEAN}))
    /\ [][LoopStepInOrder /\ FrameAfterScroll]_vars

\* the third iteration at its dispatch, two full iterations behind it
C13_Witness ==
    /\ pc = "handle_key"
    /\ downs = 2
    /\ key = ARROW_UP

\* the offset the rule of C14 asks for
RuleOffset(cursor_y, offset_y, rows) ==
    IF cursor_y >= offset_y + rows THEN cursor_y - rows + 1
    ELSE IF cursor_y < offset_y THEN cursor_y
    ELSE offset_y

\* C14: on every state with rows >= 1 scroll() sets offset_y as the rule says
\* (cursor_y - rows + 1 when cursor_y >= offset_y + rows, cursor_y when
\* cursor_y < offset_y, unchanged otherwise), changes no other field of the
\* Editor, and a second scroll() changes nothing. Checked on the Editor of
\* every scroll() call of the program, and on that Editor with every other
\* pair of cursor_y and offset_y.
C14_ScrollRule ==
    [][(pc = "scroll" /\ editor.rows >= 1) =>
          /\ editor' = [editor EXCEPT !.offset_y =
                           RuleOffset(editor.cursor_y, editor.offset_y, editor.rows)]
          /\ scroll(editor') = editor'
          /\ \A cy \in 0 .. MaxLines + 1, off \in 0 .. MaxLines + 1 :
                LET e == [editor EXCEPT !.cursor_y = cy, !.offset_y = off]
                IN  /\ scroll(e) = [e EXCEPT !.offset_y = RuleOffset(cy, off, e.rows)]
                    /\ scroll(scroll(e)) = scroll(e)]_vars

\* scroll() has just moved the window down after the second ArrowDown
C14_Witness ==
    /\ pc = "refresh_screen"
    /\ downs = 2
    /\ editor.rows = 2
    /\ editor.cursor_y = 2
    /\ editor.offset_y = 1

\* the bytes stdin has delivered to the current read_key call, zero-byte reads
\* left out
Delivered == SelectSeq(consumed, LAMBDA x : x # Timeout)

\* the key C15 gives for ESC [ d ~
TildeRule(d) ==
    CASE d \in {CH_0 + 1, CH_0 + 7} -> HOME
      [] d = CH_0 + 3 -> DEL
      [] d \in {CH_0 + 4, CH_0 + 8} -> END
      [] d = CH_0 + 5 -> PAGE_UP
      [] d = CH_0 + 6 -> PAGE_DOWN
      [] OTHER -> d

\* read_key has returned the key k and its frame is gone, so that the next
\* call starts at the first read()
Emitted(k) == pc = "handle_key" /\ key = k /\ rk = IdleFrame

\* C15 as stated: on every byte stream read_key emits one key after 1 to 4
\* bytes, by the fallback rules: ESC x gives x when x is neither '[' nor 'O',
\* ESC O x gives x when x is neither H nor F, ESC [ x gives x when x is neither
\* a mapped letter nor a digit, ESC [ d y gives y when y is not '~', and
\* ESC [ d ~ gives the key of the digit d, or d itself for 0, 2 and 9. (A read
\* that returns an error is no byte of the stream and is left aside.) Fails
\* when one of the bytes is 0: ESC 0x00 emits nothing.
C15_FallbackDecoding ==
    LET b == Delivered
        n == Len(Delivered)
    IN  /\ n <= 4
        /\ pc = "handle_key" => (n >= 1 /\ rk = IdleFrame)
        /\ (n = 2 /\ b[1] = ESC /\ b[2] \notin {CSI, SS3}) => Emitted(b[2])
        /\ (n = 3 /\ b[1] = ESC /\ b[2] = SS3 /\ b[3] \notin {CH_H, CH_F}) =>
              Emitted(b[3])
        /\ (n = 3 /\ b[1] = ESC /\ b[2] = CSI /\ ~IsDigit(b[3])
              /\ b[3] \notin {CH_A, CH_B, CH_C, CH_D, CH_H, CH_F}) => Emitted(b[3])
        /\ (n = 4 /\ b[1] = ESC /\ b[2] = CSI /\ IsDigit(b[3]) /\ b[4] # TILDE) =>
              Emitted(b[4])
        /\ (n = 4 /\ b[1] = ESC /\ b[2] = CSI /\ IsDigit(b[3]) /\ b[4] = TILDE) =>
              Emitted(TildeRule(b[3]))

\* the nine named key codes
NamedKeys == {ARROW_UP, ARROW_DOWN, ARROW_RIGHT, ARROW_LEFT, HOME, END, DEL,
              PAGE_UP, PAGE_DOWN}

\* C16: every key read_key returns is a byte value 0 .. 255 or one of the nine
\* named codes; the nine codes are distinct and none of them is a byte value,
\* so a literal is never dispatched as a navigation key, a named key is never
\* taken for 'q', and handle_key's conversion of the key to a char succeeds.
C16_ClosedKeySet ==
    pc = "handle_key" =>
        /\ key \in Byte \cup NamedKeys
        /\ Cardinality(NamedKeys) = 9 /\ NamedKeys \cap Byte = {}
        /\ key \in Byte => key \notin MOVE_KEYS
        /\ key \in NamedKeys => handle_key(key, editor).do = "loop"
        /\ CharFromU32(key) # None
        /\ handle_key(key, editor).do # "panic"

\* read_key has returned the named key ArrowUp for ESC [ A
C16_Witness ==
    /\ pc = "handle_key"
    /\ Delivered = <<ESC, CSI, CH_A>>
    /\ key \in NamedKeys
    /\ handle_key(key, editor).editor = editor

RECURSIVE KeyOfBytes(_, _)
\* read_key run from the frame f on the bytes of seq, each of them taken as a
\* byte that read() returns: the key it returns, or the frame in which it
\* waits for one more byte
KeyOfBytes(f, seq) ==
    IF seq = <<>> THEN ReadOn(f)
    ELSE IF IsSome(read_key(f, Head(seq)).ret) THEN read_key(f, Head(seq))
    ELSE KeyOfBytes(read_key(f, Head(seq)).frame, Tail(seq))

\* C17 as stated: zero-byte reads produce no key and are retried until a byte
\* is delivered; the key is fixed by the bytes delivered alone, wherever the
\* zero-byte reads fall among them; and once the last byte of a key has been
\* delivered read_key has returned that key, while before that it waits with
\* no key produced. Fails when the byte delivered is 0: read() retries past it.
C17_TimeoutsAreRetried ==
    LET d == KeyOfBytes(StartFrame, Delivered)
    IN  IF IsSome(d.ret)
        THEN pc = "handle_key" /\ key = Unwrap(d.ret)
        ELSE pc # "handle_key" /\ key = NoKey /\ rk = d.frame

\* C18: dispatching ArrowUp or ArrowDown leaves cursor_x as it is, dispatching
\* ArrowLeft, ArrowRight, Home or End leaves cursor_y as it is, no dispatch
\* changes offset_y, rows, columns, content or filename, and offset_y changes
\* in scroll() only.
C18_AxisIndependence ==
    [][/\ pc = "handle_key" =>
             /\ key \in {ARROW_UP, ARROW_DOWN} => editor'.cursor_x = editor.cursor_x
             /\ key \in {ARROW_LEFT, ARROW_RIGHT, HOME, END} =>
                   editor'.cursor_y = editor.cursor_y
             /\ editor'.offset_y = editor.offset_y
             /\ editor'.rows = editor.rows
             /\ editor'.columns = editor.columns
             /\ editor'.content = editor.content
             /\ editor'.filename = editor.filename
       /\ editor'.offset_y # editor.offset_y => pc = "scroll"]_vars

\* ArrowDown dispatched with the cursor in the last column: the cursor went
\* down a line and stayed in its column
C18_Witness ==
    /\ pc = "scroll"
    /\ key = ARROW_DOWN
    /\ editor.cursor_y = 1
    /\ editor.cursor_x = editor.columns - 1
    /\ editor.cursor_x > 0

\* C19 as stated: the saved configuration is the one the terminal had before
\* it was changed; at every rendered frame, every key read and every dispatch
\* the terminal is in raw mode, its size has been measured and the saved
\* configuration is present, so that the dispatch of 'q' finds it. Fails when
\* tcsetattr fails in enable_raw_mode: the loop runs with raw mode not entered.
C19_StartupOrdering ==
    /\ IsSome(editor.original_terminal_props) =>
          Unwrap(editor.original_terminal_props) = COOKED
    /\ (FrameRendered \/ screen # BlankScreen \/ consumed # <<>>) =>
          /\ IsSome(editor.original_terminal_props)
          /\ editor.columns >= 1
          /\ pc # "terminated" => term_attrs = raw_attributes(COOKED)
    /\ pc = "handle_key" => handle_key(key, editor).do # "panic"

\* C20: with rows >= 1, offset_y is at most 1 away from what it was at the
\* frame before (it changes in the one scroll() between two frames only, and
\* by at most 1 there), and in every rendered frame
\* 0 <= offset_y <= max(0, content.len() - rows + 1).
C20_SmoothScroll ==
    /\ []((FrameRendered /\ editor.rows >= 1) =>
             /\ 0 <= editor.offset_y
             /\ editor.offset_y <= Max({0, Len(editor.content) - editor.rows + 1}))
    /\ [][editor.rows >= 1 =>
             /\ editor'.offset_y - editor.offset_y \in {0 - 1, 0, 1}
             /\ editor'.offset_y # editor.offset_y =>
                   (pc = "scroll" /\ pc' = "refresh_screen")]_vars

\* the frame after the third ArrowDown on a file of 3 lines in 2 rows: the
\* window has reached its last position, one line at a time
C20_Witness ==
    /\ pc = "read_key"
    /\ downs = 3
    /\ editor.rows = 2
    /\ Len(editor.content) = 3
    /\ editor.offset_y = 2

====
